---- MODULE Spec2Model ----
(***************************************************************************)
(* SAMOS-Influx-Exporter: one run of samos_exporter.py driving              *)
(* SAMOSDataBuilder (samos_data_builder.py) against the InfluxDB client.    *)
(*                                                                         *)
(* Text is a sequence of one-character strings, so that slicing, replace,  *)
(* prefix tests and joins are computed the way Python computes them.       *)
(***************************************************************************)
EXTENDS Integers, Sequences, FiniteSets, TLC

VARIABLES
    cfg,                  \* samos_data_config: callsign, measurements, fields
    ts,                   \* parsed_args.date (a naive datetime)
    args,                 \* parsed_args.email, parsed_args.save
    pc,                   \* position of the __main__ script
    gen_pc,               \* position inside the build_samos_csv generator
    pulled,               \* what the last next(output) gave the script
    influx_query_result,  \* SAMOSDataBuilder._influx_query_result
    store_log,            \* the queries executed against the store, in order
    header,               \* local `header` of build_samos_csv
    rows_in,              \* lines pulled from csv_result after the header
    errors,               \* local `errors` of build_samos_csv
    log,                  \* the logging calls made, in order
    tmp,                  \* the mkstemp file: exists, lines
    sinks,                \* send_samos_email / save_to_file / print calls
    exit_status,          \* process exit status once the script has ended
    store_faults,         \* exceptions the store client raised, in order
    range_out             \* result of a lone _build_query_range call

vars == <<cfg, ts, args, pc, gen_pc, pulled, influx_query_result, store_log,
          header, rows_in, errors, log, tmp, sinks, exit_status, store_faults,
          range_out>>

(***************************************************************************)
(* Bounds of the model.                                                    *)
(***************************************************************************)
\* Largest number of lines the store streams after the header line.
MaxRows == 3

(***************************************************************************)
(* Python values and text helpers.                                         *)
(***************************************************************************)
\* Python's None, and a local name that was never assigned
NoneVal == [none |-> TRUE]
Unbound == [unbound |-> TRUE]

Upper == {"A","B","C","D","E","F","G","H","I","J","K","L","M",
          "N","O","P","Q","R","S","T","U","V","W","X","Y","Z"}
Digit == {"0","1","2","3","4","5","6","7","8","9"}

Min(a, b) == IF a < b THEN a ELSE b

\* s[:n]
Prefix(s, n) == SubSeq(s, 1, Min(n, Len(s)))

\* s[a:b], a and b >= 0 (Python clamps both ends to the length)
Slice(s, a, b) == SubSeq(s, Min(a, Len(s)) + 1, Min(b, Len(s)))

\* s.replace(c, "") for a one-character c
RECURSIVE Remove(_, _)
Remove(s, c) ==
    IF s = <<>> THEN <<>>
    ELSE IF Head(s) = c THEN Remove(Tail(s), c)
    ELSE <<Head(s)>> \o Remove(Tail(s), c)

\* sep.join(parts)
RECURSIVE Join(_, _)
Join(parts, sep) ==
    IF parts = <<>> THEN <<>>
    ELSE IF Len(parts) = 1 THEN parts[1]
    ELSE parts[1] \o sep \o Join(Tail(parts), sep)

\* list.index(x): 0 (not found) or the 1-based position of the first match
IndexOf(list, x) ==
    IF \E i \in 1..Len(list) : list[i] = x
    THEN CHOOSE i \in 1..Len(list) :
            list[i] = x /\ \A j \in 1..(i - 1) : list[j] # x
    ELSE 0

Range(s) == {s[i] : i \in 1..Len(s)}

(***************************************************************************)
(* samos_fields.py: the keys of SAMOS_FIELDS.                              *)
(***************************************************************************)
SAMOS_FIELDS ==
    { <<"A","T">>, <<"A","X">>, <<"B","C">>, <<"B","P">>, <<"C","R">>,
      <<"D","P">>, <<"F","L">>, <<"G","Y">>, <<"L","A">>, <<"L","B">>,
      <<"L","D">>, <<"L","O">>, <<"L","T">>, <<"L","W">>, <<"O","G">>,
      <<"O","S">>, <<"O","T">>, <<"O","X">>, <<"P","H">>, <<"P","R">>,
      <<"P","T">>, <<"R","H">>, <<"R","T">>, <<"S","A">>, <<"S","H">>,
      <<"S","L">>, <<"S","M">>, <<"S","P">>, <<"S","R">>, <<"S","T">>,
      <<"S","V">>, <<"S","W">>, <<"T","B">>, <<"T","C">>, <<"T","I">>,
      <<"T","K">>, <<"T","R">>, <<"T","T">>, <<"T","W">>, <<"V","H">>,
      <<"V","P">>, <<"V","R">>, <<"V","X">>, <<"V","Y">>, <<"W","D">>,
      <<"W","S">>, <<"W","T">>, <<"Z","D">>, <<"H","M">>, <<"Y","M">>,
      <<"D","T">> }

\* re.search("^[A-Z]{2}[0-9]?", field) is not None: the pattern is anchored
\* at the start only, and its optional digit always matches
RegexSearch(field) ==
    /\ Len(field) >= 2
    /\ field[1] \in Upper
    /\ field[2] \in Upper

\* the condition of the `if` in SAMOSDataBuilder.__init__
NotStandard(field) ==
    \/ Prefix(field, 2) \notin SAMOS_FIELDS
    \/ ~RegexSearch(field)

(***************************************************************************)
(* datetime arithmetic used by _build_query_range (CPython's datetime).    *)
(***************************************************************************)
MAXYEAR == 9999

_is_leap(year) == year % 4 = 0 /\ (year % 100 # 0 \/ year % 400 = 0)

_days_before_year(year) ==
    LET y == year - 1
    IN  y * 365 + (y \div 4) - (y \div 100) + (y \div 400)

_DAYS_IN_MONTH == <<31, 28, 31, 30, 31, 30, 31, 31, 30, 31, 30, 31>>

_DAYS_BEFORE_MONTH == <<0, 31, 59, 90, 120, 151, 181, 212, 243, 273, 304, 334>>

_days_in_month(year, month) ==
    IF month = 2 /\ _is_leap(year) THEN 29 ELSE _DAYS_IN_MONTH[month]

_days_before_month(year, month) ==
    _DAYS_BEFORE_MONTH[month] + (IF month > 2 /\ _is_leap(year) THEN 1 ELSE 0)

_ymd2ord(year, month, day) ==
    _days_before_year(year) + _days_before_month(year, month) + day

_MAXORDINAL == _ymd2ord(MAXYEAR, 12, 31)

_DI400Y == _days_before_year(401)
_DI100Y == _days_before_year(101)
_DI4Y == _days_before_year(5)

_ord2ymd(ordinal) ==
    LET n0   == ordinal - 1
        n400 == n0 \div _DI400Y
        r400 == n0 % _DI400Y
        n100 == r400 \div _DI100Y
        r100 == r400 % _DI100Y
        n4   == r100 \div _DI4Y
        r4   == r100 % _DI4Y
        n1   == r4 \div 365
        n    == r4 % 365
        year == n400 * 400 + 1 + n100 * 100 + n4 * 4 + n1
        leapyear == n1 = 3 /\ (n4 # 24 \/ n100 = 3)
        leap1 == IF leapyear THEN 1 ELSE 0
        m0   == (n + 50) \div 32
        p0   == _DAYS_BEFORE_MONTH[m0] + (IF m0 > 2 THEN leap1 ELSE 0)
        month == IF p0 > n THEN m0 - 1 ELSE m0
        preceding ==
            IF p0 > n
            THEN p0 - (_DAYS_IN_MONTH[month] + (IF month = 2 THEN leap1 ELSE 0))
            ELSE p0
    IN  IF n1 = 4 \/ n100 = 4
        THEN [year |-> year - 1, month |-> 12, day |-> 31]
        ELSE [year |-> year, month |-> month, day |-> n - preceding + 1]

OverflowError == [raised |-> "OverflowError"]

\* ts + timedelta(days=1): OverflowError or the datetime one day later
AddOneDay(dt) ==
    LET days == _ymd2ord(dt.year, dt.month, dt.day) + 1
    IN  IF 0 < days /\ days <= _MAXORDINAL
        THEN LET d == _ord2ymd(days)
             IN  [dt EXCEPT !.year = d.year, !.month = d.month, !.day = d.day]
        ELSE OverflowError

\* variant: the format carries the time of day, "%Y-%m-%dT%H:%M:%S.000Z"
StrftimeKeepsTime(dt) ==
    [year |-> dt.year, month |-> dt.month, day |-> dt.day,
     hour |-> dt.hour, minute |-> dt.minute, second |-> dt.second, millis |-> 0]

\* dt.strftime("%Y-%m-%dT00:00:00.000Z"): the date fields are formatted, the
\* time of day is the literal text of the format
Strftime(dt) ==
    [year |-> dt.year, month |-> dt.month, day |-> dt.day,
     hour |-> 0, minute |-> 0, second |-> 0, millis |-> 0]

\* SAMOSDataBuilder._build_query_range
_build_query_range(t) ==
    LET start_ts == t
        stop_ts  == AddOneDay(start_ts)
    IN  IF stop_ts = OverflowError
        THEN NoneVal
        ELSE [start |-> Strftime(start_ts), stop |-> Strftime(stop_ts)]


(***************************************************************************)
(* SAMOSDataBuilder._build_query: the Flux query, kept as its variable     *)
(* parts (the range and the two filter clauses).                           *)
(***************************************************************************)
MeasurementTerm(m) == <<"r[\"_measurement\"] == \"">> \o m \o <<"\"">>

FieldTerm(f) == <<"r[\"_field\"] == \"">> \o f \o <<"\"">>

\* self._query_fields = [v for _, v in samos_data_config["fields"].items()]
_query_fields(c) == [i \in 1..Len(c.fields) |-> c.fields[i].val]

_build_query(c, t) ==
    [range |-> _build_query_range(t),
     measurement_filter |->
        Join([i \in 1..Len(c.measurements) |-> MeasurementTerm(c.measurements[i])],
             <<" or ">>),
     field_filter |->
        Join([i \in 1..Len(_query_fields(c)) |-> FieldTerm(_query_fields(c)[i])],
             <<" or ">>)]

(***************************************************************************)
(* The inputs of a run: configurations, dates, command-line switches.      *)
(***************************************************************************)
KAOU == <<"K","A","O","U">>
Met == <<"m","e","t">>
TimeCol == <<"_","t","i","m","e">>
Temp == <<"T","e","m","p">>
Pressure == <<"P","r","e","s","s","u","r","e">>
Humidity == <<"H","u","m","i","d","i","t","y">>
Wind == <<"W","i","n","d">>

F(k, v) == [key |-> k, val |-> v]

Configs ==
    { \* the example of the specification
      [callsign |-> KAOU, measurements |-> <<Met>>,
       fields |-> <<F(<<"A","T">>, Temp), F(<<"B","P">>, Pressure)>>],
      \* an unknown code, and two codes reading one source field
      [callsign |-> KAOU, measurements |-> <<Met>>,
       fields |-> <<F(<<"Z","Z">>, Humidity), F(<<"A","T","1">>, Humidity), F(<<"R","H">>, Temp)>>],
      \* codes longer than two letters and a digit; two absent source fields
      [callsign |-> KAOU, measurements |-> <<Met, KAOU>>,
       fields |-> <<F(<<"A","T","X">>, Humidity), F(<<"A","T","1","2">>, Wind)>>],
      \* codes that are not two uppercase letters
      [callsign |-> KAOU, measurements |-> <<Met>>,
       fields |-> <<F(<<"a","t">>, Temp), F(<<"A">>, Pressure)>>],
      \* nothing to filter on
      [callsign |-> KAOU, measurements |-> <<Met>>, fields |-> <<>>],
      [callsign |-> KAOU, measurements |-> <<>>,
       fields |-> <<F(<<"A","T">>, Temp)>>] }

Midnight(y, m, d) ==
    [year |-> y, month |-> m, day |-> d, hour |-> 0, minute |-> 0, second |-> 0]

\* --date values of a run (argparse parses %Y-%m-%d, so the time is midnight)
RunDates == { Midnight(2003, 9, 7), Midnight(MAXYEAR, 12, 31) }

Switches == [email : BOOLEAN, save : BOOLEAN]

(***************************************************************************)
(* What the store can stream back for query_csv.                           *)
(***************************************************************************)
Headers == { <<TimeCol, Temp, Pressure>>, <<TimeCol, Temp>> }

Time1 == <<"2","0","0","3","-","0","9","-","0","7","T","0","0",":","0","0",":","1","1","Z">>
Time2 == <<"2","0","0","3","-","0","9","-","0","7","T","2","3",":","5","9",":","5","9",".","5","Z">>
\* _time values that are not RFC3339 date-times
TimeShort == <<"2","0","0","3","-","0","9","-","0","7">>

\* raw cell values, by row flavour
Cell(flavour, column) ==
    IF flavour = 1
    THEN (IF column = Temp THEN <<"1","7",".","4","0">> ELSE <<"1","0","1","0",".","2","7">>)
    ELSE (IF column = Temp THEN <<"9">> ELSE <<>>)

Row(h, time, flavour) ==
    [i \in 1..Len(h) |-> IF h[i] = TimeCol THEN time ELSE Cell(flavour, h[i])]

\* the lines that may follow header h
Lines(h) ==
    { <<>>,                                  \* an empty line
      Row(h, Time1, 1),
      Row(h, Time2, 2),
      SubSeq(Row(h, Time1, 1), 1, Len(h) - 1),   \* fewer columns than the header
      Row(h, TimeShort, 1),                  \* a _time that is too short
      h }                                    \* the header line again

\* exceptions the store client raises
TransportErrors == {"NewConnectionError", "ProtocolError", "ConnectTimeoutError",
                    "ReadTimeoutError"}
QueryErrors == TransportErrors \cup {"ApiException(400)", "ApiException(401)",
                                     "ApiException(404)", "ApiException(500)"}

\* values query() can return: no result at all, or a list of tables (empty
\* when the day has no data)
QueryResults == {NoneVal, [tables |-> 0], [tables |-> 1]}


(***************************************************************************)
(* build_samos_csv, lines 170-187: one csv line becomes one record.        *)
(***************************************************************************)
LogRec(level, site, text) == [level |-> level, site |-> site, text |-> text]

\* str(err) of the ValueError raised by header.index(val)
ValueErrorStr(val) ==
    <<"'">> \o val \o <<"'">>
        \o <<" ","i","s"," ","n","o","t"," ","i","n"," ","l","i","s","t">>

\* variant: the warning is not deduplicated
AlwaysLogged(errs, msg) == TRUE

\* `if str(err) not in errors`
NotYetLogged(errs, msg) == msg \notin Range(errs)

\* variant: the value is parsed and printed again, "17.40" becomes "17.4"
RECURSIVE StripTrailingZeros(_)
StripTrailingZeros(raw) ==
    IF raw # <<>> /\ raw[Len(raw)] = "0" /\ "." \in Range(raw)
    THEN StripTrailingZeros(SubSeq(raw, 1, Len(raw) - 1))
    ELSE raw

ValueTokenReformatted(key, raw) == key \o <<":">> \o StripTrailingZeros(raw)

\* f"{key}:{csv_line[header.index(val)]}"
ValueToken(key, raw) == key \o <<":">> \o raw

\* f"{key}:NaN"
NaNToken(key) == key \o <<":","N","a","N">>

\* f'YMD:{...[:10].replace("-","")}'
YmdToken(time) == <<"Y","M","D",":">> \o Remove(Prefix(time, 10), "-")

\* f'HMS:{...[11:19].replace(":","")}'
HmsToken(time) == <<"H","M","S",":">> \o Remove(Slice(time, 11, 19), ":")

\* variant: an absent source field warns but appends no token
RECURSIVE FieldLoopSkipsMissing(_, _, _, _)
FieldLoopSkipsMissing(fields, hdr, csv_line, st) ==
    IF fields = <<>> THEN st
    ELSE LET key == Head(fields).key
             val == Head(fields).val
             idx == IndexOf(hdr, val)
         IN  IF idx = 0
             THEN LET msg == ValueErrorStr(val)
                      new == NotYetLogged(st.errors, msg)
                  IN  FieldLoopSkipsMissing(Tail(fields), hdr, csv_line,
                        [st EXCEPT
                           !.errors = IF new THEN Append(@, msg) ELSE @,
                           !.logged = IF new
                                      THEN Append(@, LogRec("warning", "missing_field", msg))
                                      ELSE @])
             ELSE IF idx > Len(csv_line)
             THEN [st EXCEPT !.raised = "IndexError"]
             ELSE FieldLoopSkipsMissing(Tail(fields), hdr, csv_line,
                    [st EXCEPT !.columns = Append(@, ValueToken(key, csv_line[idx]))])

\* the `for key, val in self._fields.items()` loop; st carries columns,
\* errors, the warnings logged and the exception that left the loop, if any
RECURSIVE FieldLoop(_, _, _, _)
FieldLoop(fields, hdr, csv_line, st) ==
    IF fields = <<>> THEN st
    ELSE LET key == Head(fields).key
             val == Head(fields).val
             idx == IndexOf(hdr, val)
         IN  IF idx = 0
             THEN LET msg == ValueErrorStr(val)
                      new == NotYetLogged(st.errors, msg)
                  IN  FieldLoop(Tail(fields), hdr, csv_line,
                        [st EXCEPT
                           !.errors = IF new THEN Append(@, msg) ELSE @,
                           !.logged = IF new
                                      THEN Append(@, LogRec("warning", "missing_field", msg))
                                      ELSE @,
                           !.columns = Append(@, NaNToken(key))])
             ELSE IF idx > Len(csv_line)
             THEN [st EXCEPT !.raised = "IndexError"]
             ELSE FieldLoop(Tail(fields), hdr, csv_line,
                    [st EXCEPT !.columns = Append(@, ValueToken(key, csv_line[idx]))])

\* ",".join(columns) + "\n"
RecordOf(columns) == Join(columns, <<",">>) \o <<"\n">>

\* the body of the `for` loop for one non-empty csv_line
BuildRow(c, hdr, csv_line, errs) ==
    LET ti == IndexOf(hdr, TimeCol)
        st0 == [columns |-> <<>>, errors |-> errs, logged |-> <<>>, raised |-> "none"]
    IN  IF ti = 0 THEN [st0 EXCEPT !.raised = "ValueError"]
        ELSE IF ti > Len(csv_line) THEN [st0 EXCEPT !.raised = "IndexError"]
        ELSE FieldLoop(c.fields, hdr, csv_line,
               [st0 EXCEPT !.columns =
                  << <<"$","S","A","M","O","S",":","0","0","1">>,
                     <<"C","S",":">> \o c.callsign,
                     YmdToken(csv_line[ti]),
                     HmsToken(csv_line[ti]) >>])

(***************************************************************************)
(* What next(output) hands to the script.                                  *)
(***************************************************************************)
Idle == [kind |-> "idle"]
Pending == [kind |-> "pending"]
Yielded(line) == [kind |-> "yield", none |-> FALSE, value |-> line]
YieldedNone == [kind |-> "yield", none |-> TRUE, value |-> <<>>]
StopIteration == [kind |-> "StopIteration"]
Raised(exc) == [kind |-> "raise", exc |-> exc]

NotCalled == <<>>

(***************************************************************************)
(* Initial state: the script has parsed its arguments and configuration.   *)
(***************************************************************************)
Fresh ==
    /\ gen_pc = "start"
    /\ pulled = Idle
    /\ influx_query_result = NoneVal
    /\ store_log = <<>>
    /\ header = Unbound
    /\ rows_in = <<>>
    /\ errors = <<>>
    /\ log = <<>>
    /\ tmp = [created |-> FALSE, exists |-> FALSE, lines |-> <<>>]
    /\ sinks = [email |-> NotCalled, file |-> NotCalled, stdout |-> NotCalled]
    /\ exit_status = "running"
    /\ store_faults = <<>>
    /\ range_out = Unbound

Init ==
    /\ cfg \in Configs
    /\ ts \in RunDates
    /\ args \in Switches
    /\ pc = "construct"
    /\ Fresh

(***************************************************************************)
(* SAMOSDataBuilder.__init__, lines 64-71, then build_samos_csv(date)      *)
(* creates the generator and the script calls next(output, None).          *)
(***************************************************************************)
RECURSIVE InitWarnings(_)
InitWarnings(fields) ==
    IF fields = <<>> THEN <<>>
    ELSE (IF NotStandard(Head(fields).key)
          THEN <<LogRec("warning", "not_standard", Head(fields).key)>>
          ELSE <<>>) \o InitWarnings(Tail(fields))

Construct ==
    /\ pc = "construct"
    /\ log' = log \o InitWarnings(cfg.fields)
    /\ pc' = "peek"
    /\ pulled' = Pending
    /\ UNCHANGED <<cfg, ts, args, gen_pc, influx_query_result, store_log, header,
                   rows_in, errors, tmp, sinks, exit_status, store_faults, range_out>>


(***************************************************************************)
(* retrieve_samos_data, lines 189-239, as called by the generator's first  *)
(* step (lines 142-151).                                                   *)
(***************************************************************************)
\* the logging.error calls of the except clauses
RetrieveErrorLog(exc) ==
    IF exc = "NewConnectionError"
    THEN <<LogRec("error", "new_connection_error_verify_url", <<>>)>>
    ELSE IF exc = "ProtocolError"
    THEN <<LogRec("error", "protocol_error_verify_url", <<>>)>>
    ELSE IF exc = "ConnectTimeoutError"
    THEN <<LogRec("error", "timeout_error_verify_url", <<>>)>>
    ELSE IF exc = "ApiException(400)"
    THEN <<LogRec("error", "api_error_verify_org", <<>>)>>
    ELSE IF exc = "ApiException(401)"
    THEN <<LogRec("error", "api_error_verify_token", <<>>)>>
    ELSE IF exc = "ApiException(404)"
    THEN <<LogRec("error", "api_error_verify_bucket", <<>>)>>
    ELSE IF exc = "ApiException(500)"
    THEN <<LogRec("error", "unknown_api_error", <<>>)>>
    ELSE <<LogRec("error", "error_with_query", <<>>)>>

Issued(api, outcome) ==
    [api |-> api, query |-> _build_query(cfg, ts), outcome |-> outcome]

\* query() raises: the handler logs and re-raises, build_samos_csv turns the
\* exception into sys.exit(1)
GenRetrieveFails ==
    /\ pulled = Pending
    /\ gen_pc = "start"
    /\ influx_query_result = NoneVal
    /\ \E exc \in QueryErrors :
          /\ store_log' = Append(store_log, Issued("query", "raised"))
          /\ store_faults' = Append(store_faults, exc)
          /\ log' = log \o <<LogRec("info", "retrieving", <<>>)>> \o RetrieveErrorLog(exc)
    /\ pulled' = Raised("SystemExit(1)")
    /\ gen_pc' = "closed"
    /\ UNCHANGED <<cfg, ts, args, pc, influx_query_result, header, rows_in, errors,
                   tmp, sinks, exit_status, range_out>>

\* query() returns; a None result makes the generator yield None
GenRetrieve ==
    /\ pulled = Pending
    /\ gen_pc = "start"
    /\ influx_query_result = NoneVal
    /\ store_log' = Append(store_log, Issued("query", "ok"))
    /\ \E r \in QueryResults :
          /\ influx_query_result' = r
          /\ IF r = NoneVal
             THEN /\ log' = log \o <<LogRec("info", "retrieving", <<>>),
                                     LogRec("info", "did_not_find_any_data", <<>>)>>
                  /\ pulled' = YieldedNone
                  /\ gen_pc' = "yielded_none"
             ELSE /\ log' = log \o <<LogRec("info", "retrieving", <<>>)>>
                  /\ pulled' = pulled
                  /\ gen_pc' = "query_csv"
    /\ UNCHANGED <<cfg, ts, args, pc, header, rows_in, errors, tmp, sinks,
                   exit_status, store_faults, range_out>>

(***************************************************************************)
(* build_samos_csv, lines 153-167: query_csv and the header line.          *)
(***************************************************************************)
GenQueryCsvFails ==
    /\ pulled = Pending
    /\ gen_pc = "query_csv"
    /\ \E exc \in QueryErrors :
          /\ store_log' = Append(store_log, Issued("query_csv", "raised"))
          /\ store_faults' = Append(store_faults, exc)
          /\ pulled' = Raised(exc)
    /\ gen_pc' = "closed"
    /\ UNCHANGED <<cfg, ts, args, pc, influx_query_result, header, rows_in, errors,
                   log, tmp, sinks, exit_status, range_out>>

\* variant: the rows are read from the result retrieve_samos_data stored,
\* no second query is sent
GenQueryCsvReusesResult ==
    /\ pulled = Pending
    /\ gen_pc = "query_csv"
    /\ gen_pc' = "header"
    /\ UNCHANGED <<cfg, ts, args, pc, pulled, influx_query_result, store_log, header,
                   rows_in, errors, log, tmp, sinks, exit_status, store_faults,
                   range_out>>

\* csv_result = self._influxdb_client_api.query_csv(self._build_query(ts), ...)
GenQueryCsv ==
    /\ pulled = Pending
    /\ gen_pc = "query_csv"
    /\ store_log' = Append(store_log, Issued("query_csv", "ok"))
    /\ gen_pc' = "header"
    /\ UNCHANGED <<cfg, ts, args, pc, pulled, influx_query_result, header, rows_in,
                   errors, log, tmp, sinks, exit_status, store_faults, range_out>>

\* header = next(csv_result)
GenHeader ==
    /\ pulled = Pending
    /\ gen_pc = "header"
    /\ \E h \in Headers : header' = [cols |-> h]
    /\ gen_pc' = "loop"
    /\ UNCHANGED <<cfg, ts, args, pc, pulled, influx_query_result, store_log,
                   rows_in, errors, log, tmp, sinks, exit_status, store_faults,
                   range_out>>

\* except StopIteration: pass  (the result has no line at all)
GenHeaderStopIteration ==
    /\ pulled = Pending
    /\ gen_pc = "header"
    /\ gen_pc' = "loop"
    /\ UNCHANGED <<cfg, ts, args, pc, pulled, influx_query_result, store_log, header,
                   rows_in, errors, log, tmp, sinks, exit_status, store_faults,
                   range_out>>

\* the response stream breaks while a line is read
GenStreamFails ==
    /\ pulled = Pending
    /\ \/ gen_pc = "header"
       \/ gen_pc = "loop" /\ header # Unbound /\ Len(rows_in) < MaxRows
    /\ \E exc \in TransportErrors :
          /\ store_faults' = Append(store_faults, exc)
          /\ pulled' = Raised(exc)
    /\ gen_pc' = "closed"
    /\ UNCHANGED <<cfg, ts, args, pc, influx_query_result, store_log, header,
                   rows_in, errors, log, tmp, sinks, exit_status, range_out>>

(***************************************************************************)
(* build_samos_csv, lines 169-187: the loop over csv_result.               *)
(***************************************************************************)
\* csv_result is exhausted: the generator returns
GenEnd ==
    /\ pulled = Pending
    /\ gen_pc = "loop"
    /\ pulled' = StopIteration
    /\ gen_pc' = "closed"
    /\ UNCHANGED <<cfg, ts, args, pc, influx_query_result, store_log, header,
                   rows_in, errors, log, tmp, sinks, exit_status, store_faults,
                   range_out>>

\* `if not len(csv_line) == 0` is false: the line is skipped
GenEmptyLine ==
    /\ pulled = Pending
    /\ gen_pc = "loop"
    /\ header # Unbound
    /\ Len(rows_in) < MaxRows
    /\ rows_in' = Append(rows_in, <<>>)
    /\ UNCHANGED <<cfg, ts, args, pc, gen_pc, pulled, influx_query_result, store_log,
                   header, errors, log, tmp, sinks, exit_status, store_faults,
                   range_out>>

\* a non-empty line: a record is yielded, or an exception leaves the generator
GenRow ==
    /\ pulled = Pending
    /\ gen_pc = "loop"
    /\ header # Unbound
    /\ Len(rows_in) < MaxRows
    /\ \E csv_line \in Lines(header.cols) \ {<<>>} :
          LET r == BuildRow(cfg, header.cols, csv_line, errors)
          IN  /\ rows_in' = Append(rows_in, csv_line)
              /\ errors' = r.errors
              /\ log' = log \o r.logged
              /\ IF r.raised = "none"
                 THEN /\ pulled' = Yielded(RecordOf(r.columns))
                      /\ gen_pc' = "suspended"
                 ELSE /\ pulled' = Raised(r.raised)
                      /\ gen_pc' = "closed"
    /\ UNCHANGED <<cfg, ts, args, pc, influx_query_result, store_log, header, tmp,
                   sinks, exit_status, store_faults, range_out>>

(***************************************************************************)
(* samos_exporter.py __main__, lines 165-199.                              *)
(***************************************************************************)
\* peek = next(output, None) ended with an exception: the script dies
MainPeekRaised ==
    /\ pc = "peek"
    /\ pulled.kind = "raise"
    /\ exit_status' = "1"
    /\ pc' = "exited"
    /\ UNCHANGED <<cfg, ts, args, gen_pc, pulled, influx_query_result, store_log,
                   header, rows_in, errors, log, tmp, sinks, store_faults, range_out>>

\* variant: no data is treated as a failure, sys.exit(1)
MainPeekNoneFails ==
    /\ pc = "peek"
    /\ \/ pulled.kind = "StopIteration"
       \/ pulled.kind = "yield" /\ pulled.none
    /\ log' = Append(log, LogRec("info", "no_data_found_quitting", <<>>))
    /\ exit_status' = "1"
    /\ pc' = "exited"
    /\ UNCHANGED <<cfg, ts, args, gen_pc, pulled, influx_query_result, store_log,
                   header, rows_in, errors, tmp, sinks, store_faults, range_out>>

\* peek is None (yielded None, or the generator ended): sys.exit(0)
MainPeekNone ==
    /\ pc = "peek"
    /\ \/ pulled.kind = "StopIteration"
       \/ pulled.kind = "yield" /\ pulled.none
    /\ log' = Append(log, LogRec("info", "no_data_found_quitting", <<>>))
    /\ exit_status' = "0"
    /\ pc' = "exited"
    /\ UNCHANGED <<cfg, ts, args, gen_pc, pulled, influx_query_result, store_log,
                   header, rows_in, errors, tmp, sinks, store_faults, range_out>>

\* mkstemp, fp.write(peek), and the next pull of itertools.chain
MainPeekRecord ==
    /\ pc = "peek"
    /\ pulled.kind = "yield" /\ ~pulled.none
    /\ tmp' = [created |-> TRUE, exists |-> TRUE, lines |-> <<pulled.value>>]
    /\ pc' = "write"
    /\ pulled' = Pending
    /\ gen_pc' = "loop"
    /\ UNCHANGED <<cfg, ts, args, influx_query_result, store_log, header, rows_in,
                   errors, log, sinks, exit_status, store_faults, range_out>>

\* fp.write(line), and the next pull
MainWrite ==
    /\ pc = "write"
    /\ pulled.kind = "yield"
    /\ tmp' = [tmp EXCEPT !.lines = Append(@, pulled.value)]
    /\ pulled' = Pending
    /\ gen_pc' = "loop"
    /\ UNCHANGED <<cfg, ts, args, pc, influx_query_result, store_log, header,
                   rows_in, errors, log, sinks, exit_status, store_faults, range_out>>

\* variant: no `finally`, the temporary file stays behind
MainWriteRaisedKeepsFile ==
    /\ pc = "write"
    /\ pulled.kind = "raise"
    /\ exit_status' = "1"
    /\ pc' = "exited"
    /\ UNCHANGED <<cfg, ts, args, gen_pc, pulled, influx_query_result, store_log,
                   header, rows_in, errors, log, tmp, sinks, store_faults, range_out>>

\* an exception leaves the `for`: finally os.remove(path), the script dies
MainWriteRaised ==
    /\ pc = "write"
    /\ pulled.kind = "raise"
    /\ tmp' = [tmp EXCEPT !.exists = FALSE]
    /\ exit_status' = "1"
    /\ pc' = "exited"
    /\ UNCHANGED <<cfg, ts, args, gen_pc, pulled, influx_query_result, store_log,
                   header, rows_in, errors, log, sinks, store_faults, range_out>>

\* the `for` ends: email, save, print, finally os.remove(path)
MainSinks ==
    /\ pc = "write"
    /\ pulled.kind = "StopIteration"
    /\ sinks' = [email  |-> IF args.email THEN <<tmp.lines>> ELSE NotCalled,
                 file   |-> IF args.save THEN <<tmp.lines>> ELSE NotCalled,
                 stdout |-> IF ~(args.email \/ args.save)
                            THEN <<tmp.lines>> ELSE NotCalled]
    /\ log' = log
              \o (IF args.email THEN <<LogRec("info", "emailing", <<>>)>> ELSE <<>>)
              \o (IF args.save THEN <<LogRec("info", "saving", <<>>)>> ELSE <<>>)
    /\ tmp' = [tmp EXCEPT !.exists = FALSE]
    /\ exit_status' = "0"
    /\ pc' = "exited"
    /\ UNCHANGED <<cfg, ts, args, gen_pc, pulled, influx_query_result, store_log,
                   header, rows_in, errors, store_faults, range_out>>

Next ==
    \/ Construct
    \/ GenRetrieveFails
    \/ GenRetrieve
    \/ GenQueryCsvFails
    \/ GenQueryCsv
    \/ GenHeader
    \/ GenHeaderStopIteration
    \/ GenStreamFails
    \/ GenEnd
    \/ GenEmptyLine
    \/ GenRow
    \/ MainPeekRaised
    \/ MainPeekNone
    \/ MainPeekRecord
    \/ MainWrite
    \/ MainWriteRaised
    \/ MainSinks

Spec == Init /\ [][Next]_vars


(***************************************************************************)
(* A lone call of _build_query_range, for every date of a few years and    *)
(* two times of day.                                                       *)
(***************************************************************************)
RangeYears == {1999, 2000, 2023, 2024, 2100, MAXYEAR - 1, MAXYEAR}

RangeDates ==
    { [year |-> y, month |-> m, day |-> d,
       hour |-> t[1], minute |-> t[2], second |-> t[3]] :
         y \in RangeYears, m \in 1..12, d \in 1..31,
         t \in {<<0, 0, 0>>, <<13, 45, 59>>} }

InitRange ==
    /\ cfg \in {c \in Configs : Len(c.fields) = 2 /\ Len(c.measurements) = 1}
    /\ ts \in {t \in RangeDates : t.day <= _days_in_month(t.year, t.month)}
    /\ args = [email |-> FALSE, save |-> FALSE]
    /\ pc = "range_call"
    /\ Fresh

CallBuildQueryRange ==
    /\ pc = "range_call"
    /\ range_out' = _build_query_range(ts)
    /\ pc' = "range_done"
    /\ UNCHANGED <<cfg, ts, args, gen_pc, pulled, influx_query_result, store_log,
                   header, rows_in, errors, log, tmp, sinks, exit_status,
                   store_faults>>

NextRange == CallBuildQueryRange

SpecRange == InitRange /\ [][NextRange]_vars


(***************************************************************************)
(* build_samos_csv driven by a caller that keeps pulling, as in            *)
(* `for line in builder.build_samos_csv(ts)`: a generator that has yielded *)
(* resumes after its `yield` (line 153 after `yield None`, the `for` after *)
(* a record).                                                              *)
(***************************************************************************)
InitConsumer ==
    /\ cfg \in Configs
    /\ ts \in RunDates
    /\ args = [email |-> FALSE, save |-> FALSE]
    /\ pc = "consumer_construct"
    /\ Fresh

\* SAMOSDataBuilder(config), build_samos_csv(ts), the first next()
ConsumerConstruct ==
    /\ pc = "consumer_construct"
    /\ log' = log \o InitWarnings(cfg.fields)
    /\ pc' = "consume"
    /\ pulled' = Pending
    /\ UNCHANGED <<cfg, ts, args, gen_pc, influx_query_result, store_log, header,
                   rows_in, errors, tmp, sinks, exit_status, store_faults, range_out>>

\* next() on a generator suspended at a `yield`
ConsumerPull ==
    /\ pc = "consume"
    /\ pulled.kind = "yield"
    /\ gen_pc \in {"yielded_none", "suspended"}
    /\ gen_pc' = IF gen_pc = "yielded_none" THEN "query_csv" ELSE "loop"
    /\ pulled' = Pending
    /\ UNCHANGED <<cfg, ts, args, pc, influx_query_result, store_log, header,
                   rows_in, errors, log, tmp, sinks, exit_status, store_faults,
                   range_out>>

\* the generator returned or raised: the caller's loop is over
ConsumerStop ==
    /\ pc = "consume"
    /\ pulled.kind \in {"StopIteration", "raise"}
    /\ pc' = "consumer_done"
    /\ exit_status' = IF pulled.kind = "raise" /\ pulled.exc = "SystemExit(1)"
                      THEN "1" ELSE exit_status
    /\ UNCHANGED <<cfg, ts, args, gen_pc, pulled, influx_query_result, store_log,
                   header, rows_in, errors, log, tmp, sinks, store_faults, range_out>>

NextConsumer ==
    \/ ConsumerConstruct
    \/ ConsumerPull
    \/ ConsumerStop
    \/ GenRetrieveFails
    \/ GenRetrieve
    \/ GenQueryCsvFails
    \/ GenQueryCsv
    \/ GenHeader
    \/ GenHeaderStopIteration
    \/ GenStreamFails
    \/ GenEnd
    \/ GenEmptyLine
    \/ GenRow

SpecConsumer == InitConsumer /\ [][NextConsumer]_vars

(***************************************************************************)
(* Vocabulary of the properties.                                           *)
(***************************************************************************)
\* text.split(c): the pieces between the occurrences of c
SplitOn(text, c) ==
    LET seps == {i \in 1..Len(text) : text[i] = c}
        \* position of the k-th separator; 0 before the first, Len + 1 after the last
        Sep(k) == IF k = 0 THEN 0
                  ELSE IF k > Cardinality(seps) THEN Len(text) + 1
                  ELSE CHOOSE p \in seps : Cardinality({q \in seps : q < p}) = k - 1
    IN  [k \in 1..(Cardinality(seps) + 1) |-> SubSeq(text, Sep(k - 1) + 1, Sep(k) - 1)]

StartsWith(text, p) == Len(text) >= Len(p) /\ SubSeq(text, 1, Len(p)) = p

AfterPrefix(text, p) == SubSeq(text, Len(p) + 1, Len(text))

\* a record is being handed to the script right now
YieldingRecord == pulled.kind = "yield" /\ ~pulled.none

\* every record the generator has yielded so far
Emitted ==
    Range(tmp.lines) \cup (IF YieldingRecord THEN {pulled.value} ELSE {})

\* the tokens of a record: the text before the final newline, split on commas
Tokens(rec) == SplitOn(SubSeq(rec, 1, Len(rec) - 1), ",")

Absent(val) == header = Unbound \/ val \notin Range(header.cols)

AbsentSources == {cfg.fields[i].val : i \in {j \in 1..Len(cfg.fields) : Absent(cfg.fields[j].val)}}

\* the row the record being yielded was built from
CurrentRow == rows_in[Len(rows_in)]

(***************************************************************************)
(* C1: every emitted record of a configuration with a nonempty fields      *)
(* mapping is the comma-join of exactly 4 + len(fields) tokens, in the     *)
(* order $SAMOS:<seq>, CS:<callsign>, YMD:<date>, HMS:<time>, then one     *)
(* token per configured output code in insertion order, however many       *)
(* source fields are absent from the header; it ends with one newline.     *)
(***************************************************************************)
RecordShape ==
    \A rec \in Emitted :
        Len(cfg.fields) > 0 =>
            /\ Len(rec) >= 1
            /\ rec[Len(rec)] = "\n"
            /\ "\n" \notin Range(SubSeq(rec, 1, Len(rec) - 1))
            /\ LET toks == Tokens(rec)
               IN  /\ Len(toks) = 4 + Len(cfg.fields)
                   /\ StartsWith(toks[1], <<"$","S","A","M","O","S",":">>)
                   /\ toks[2] = <<"C","S",":">> \o cfg.callsign
                   /\ StartsWith(toks[3], <<"Y","M","D",":">>)
                   /\ StartsWith(toks[4], <<"H","M","S",":">>)
                   /\ \A i \in 1..Len(cfg.fields) :
                         StartsWith(toks[4 + i], cfg.fields[i].key \o <<":">>)

\* a record was yielded although some, not all, configured sources are absent
RecordShapeWitness ==
    /\ YieldingRecord
    /\ Len(cfg.fields) >= 2
    /\ AbsentSources # {}
    /\ \E i \in 1..Len(cfg.fields) : ~Absent(cfg.fields[i].val)

(***************************************************************************)
(* C2: in the record built from a row, the token of a pair (code, source)  *)
(* is code:<the row's raw value of that column> when source is a column of *)
(* the header, and exactly code:NaN when it is not.                        *)
(***************************************************************************)
TokenValues ==
    YieldingRecord =>
        LET toks == Tokens(pulled.value)
        IN  \A i \in 1..Len(cfg.fields) :
               LET key == cfg.fields[i].key
                   val == cfg.fields[i].val
               IN  IF Absent(val)
                   THEN toks[4 + i] = key \o <<":","N","a","N">>
                   ELSE \E j \in 1..Len(header.cols) :
                           /\ header.cols[j] = val
                           /\ toks[4 + i] = key \o <<":">> \o CurrentRow[j]

\* a row with the value 17.40 for one source, while another source is absent
TokenValuesWitness ==
    /\ YieldingRecord
    /\ AbsentSources # {}
    /\ \E i \in 1..Len(cfg.fields) :
          /\ ~Absent(cfg.fields[i].val)
          /\ Tokens(pulled.value)[4 + i] = cfg.fields[i].key \o <<":","1","7",".","4","0">>

(***************************************************************************)
(* C3: when the store returns zero data rows for the day (no result at     *)
(* all, an empty result, or a header with no data row), the run emits no   *)
(* record, calls no sink, raises nothing and ends with exit status 0,      *)
(* while a run in which the store fails ends with exit status 1.           *)
(***************************************************************************)
NoDataRowSoFar ==
    /\ store_faults = <<>>
    /\ \A i \in 1..Len(rows_in) : rows_in[i] = <<>>

NoDataOutcome ==
    /\ NoDataRowSoFar =>
          /\ Emitted = {}
          /\ ~tmp.created
          /\ sinks.email = NotCalled /\ sinks.file = NotCalled /\ sinks.stdout = NotCalled
          /\ pulled.kind # "raise"
          /\ pc = "exited" => exit_status = "0"
    /\ (pc = "exited" /\ store_faults # <<>>) => exit_status = "1"

\* a run that got a header, an empty line and then the end of the result
NoDataOutcomeWitness ==
    /\ pc = "exited"
    /\ exit_status = "0"
    /\ header # Unbound
    /\ rows_in = << <<>> >>
    /\ store_faults = <<>>

(***************************************************************************)
(* C4: within one invocation of build_samos_csv the missing-field warning  *)
(* of a configured source field that is absent from the header is logged   *)
(* once, when the first row is processed, and never again for later rows;  *)
(* two different absent source fields get one warning each.                *)
(***************************************************************************)
MissingWarnings == {i \in 1..Len(log) : log[i].site = "missing_field"}

MissingWarningsFor(val) ==
    {i \in MissingWarnings : log[i].text = ValueErrorStr(val)}

WarnedOnce ==
    /\ \A val \in AbsentSources :
          /\ Cardinality(MissingWarningsFor(val)) <= 1
          /\ Emitted # {} => Cardinality(MissingWarningsFor(val)) = 1
    /\ Cardinality(MissingWarnings) <= Cardinality(AbsentSources)

\* three rows were processed with two different source fields absent
WarnedOnceWitness ==
    /\ YieldingRecord
    /\ Len(tmp.lines) >= 2
    /\ Cardinality(AbsentSources) = 2
    /\ Cardinality(MissingWarnings) = 2

(***************************************************************************)
(* C5: building the query with an empty measurement set or an empty field  *)
(* set raises an error that is fatal to the run: no query is returned and  *)
(* no query with an empty filter clause is issued to the store.            *)
(***************************************************************************)
\* no query the store has executed has an empty filter clause
EmptySelectorsNeverQueried ==
    \A i \in 1..Len(store_log) :
        store_log[i].outcome = "ok" =>
            /\ cfg.measurements # <<>> /\ cfg.fields # <<>>
            /\ store_log[i].query.measurement_filter # <<>>
            /\ store_log[i].query.field_filter # <<>>

(***************************************************************************)
(* C6: when the store fails with a transport error at any point of a run   *)
(* (first retrieval, query_csv, or while lines are streamed), neither      *)
(* send_samos_email nor save_to_file is called in that run, the run ends   *)
(* with a failure status, and a temporary file that was created is gone    *)
(* when the run has ended.                                                 *)
(***************************************************************************)
TransportFailed == \E i \in 1..Len(store_faults) : store_faults[i] \in TransportErrors

NoSinkAfterTransportFailure ==
    TransportFailed =>
        /\ sinks.email = NotCalled
        /\ sinks.file = NotCalled
        /\ pc = "exited" => (~tmp.exists /\ exit_status = "1")

\* the stream broke after a record had been written to the temporary file
NoSinkAfterTransportFailureWitness ==
    /\ TransportFailed
    /\ pc = "exited"
    /\ tmp.created
    /\ Len(tmp.lines) >= 1
    /\ args.email /\ args.save

(***************************************************************************)
(* C7: no emitted record carries a corrupted date or time tag: the YMD     *)
(* value is exactly 8 digits and the HMS value exactly 6 digits, also for  *)
(* a row whose _time is not a well-formed RFC3339 string.                  *)
(***************************************************************************)
AllDigits(text, n) == Len(text) = n /\ Range(text) \subseteq Digit

DateTimeTagsWellFormed ==
    \A rec \in Emitted :
        LET toks == Tokens(rec)
        IN  /\ AllDigits(AfterPrefix(toks[3], <<"Y","M","D",":">>), 8)
            /\ AllDigits(AfterPrefix(toks[4], <<"H","M","S",":">>), 6)

(***************************************************************************)
(* C8: a row that lacks a value for a configured field, such as a row with *)
(* fewer columns than the header, does not abort the export: no exception  *)
(* leaves build_samos_csv because of it.                                   *)
(***************************************************************************)
ShortRowRecovered ==
    (pulled.kind = "raise" /\ rows_in # <<>> /\ Len(CurrentRow) >= 1)
        => pulled.exc # "IndexError"

(***************************************************************************)
(* C9: constructing SAMOSDataBuilder logs exactly one "not a standard      *)
(* SAMOS field identifier" warning for a configured code iff the code is   *)
(* not known; a code is known iff its two-character prefix is a key of     *)
(* SAMOS_FIELDS and the whole code is two uppercase letters optionally     *)
(* followed by one digit.                                                  *)
(***************************************************************************)
IsKnown(code) ==
    /\ Len(code) \in {2, 3}
    /\ code[1] \in Upper /\ code[2] \in Upper
    /\ Len(code) = 3 => code[3] \in Digit
    /\ SubSeq(code, 1, 2) \in SAMOS_FIELDS

NotStandardWarningsFor(code) ==
    {i \in 1..Len(log) : log[i].site = "not_standard" /\ log[i].text = code}

WarnedIffUnknown ==
    pc \notin {"construct", "range_call", "range_done"} =>
        \A i \in 1..Len(cfg.fields) :
            Cardinality(NotStandardWarningsFor(cfg.fields[i].key))
                = (IF IsKnown(cfg.fields[i].key) THEN 0 ELSE 1)


(***************************************************************************)
(* C10: for every valid target date, also the last day of a month or of a  *)
(* year and a date carrying a time of day, _build_query_range yields a     *)
(* start at 00:00:00.000 UTC of the target date and a stop exactly 24      *)
(* hours later, at 00:00:00.000 UTC of the next calendar day.              *)
(***************************************************************************)
\* the Gregorian calendar, stated without the ordinal arithmetic of datetime
CalendarLeap(y) == y % 400 = 0 \/ (y % 4 = 0 /\ y % 100 # 0)

CalendarDaysInMonth(y, m) ==
    IF m \in {4, 6, 9, 11} THEN 30
    ELSE IF m = 2 THEN (IF CalendarLeap(y) THEN 29 ELSE 28)
    ELSE 31

NextCalendarDay(t) ==
    IF t.day < CalendarDaysInMonth(t.year, t.month)
    THEN [year |-> t.year, month |-> t.month, day |-> t.day + 1]
    ELSE IF t.month < 12
    THEN [year |-> t.year, month |-> t.month + 1, day |-> 1]
    ELSE [year |-> t.year + 1, month |-> 1, day |-> 1]

MidnightUTC(d) ==
    [year |-> d.year, month |-> d.month, day |-> d.day,
     hour |-> 0, minute |-> 0, second |-> 0, millis |-> 0]

WholeDayOf(t) == [start |-> MidnightUTC(t), stop |-> MidnightUTC(NextCalendarDay(t))]

\* the day after which datetime has no next day
LastRepresentableDay(t) == t.year = MAXYEAR /\ t.month = 12 /\ t.day = 31

UndefinedRangeNeverQueried ==
    \A i \in 1..Len(store_log) :
        store_log[i].outcome = "ok" =>
            /\ _build_query_range(ts) # NoneVal
            /\ store_log[i].query.range # NoneVal


(***************************************************************************)
(* C12: records are emitted one per data row, in the store's return order, *)
(* each row consumed once: at every moment the records yielded so far are  *)
(* as many as the non-empty lines pulled so far, the i-th record is built  *)
(* from the i-th non-empty line, empty lines give no record, and record i  *)
(* is yielded before line i+1 is pulled.                                   *)
(***************************************************************************)
IsDataLine(line) == line # <<>>

\* the non-empty lines pulled after the header, in the order pulled
NonEmptyRows == SelectSeq(rows_in, IsDataLine)

\* the records yielded so far, in the order yielded
EmittedSeq == tmp.lines \o (IF YieldingRecord THEN <<pulled.value>> ELSE <<>>)

\* the tokens of rec carry the time and the cell values of csv_line
RecordMatchesRow(rec, csv_line) ==
    LET toks == Tokens(rec)
    IN  /\ \E t \in 1..Len(header.cols) :
              /\ header.cols[t] = TimeCol
              /\ toks[3] = YmdToken(csv_line[t])
              /\ toks[4] = HmsToken(csv_line[t])
        /\ \A i \in 1..Len(cfg.fields) :
              ~Absent(cfg.fields[i].val) =>
                  \E j \in 1..Len(header.cols) :
                      /\ header.cols[j] = cfg.fields[i].val
                      /\ toks[4 + i] = cfg.fields[i].key \o <<":">> \o csv_line[j]

OneRecordPerRow ==
    /\ Len(EmittedSeq) = Len(NonEmptyRows)
    /\ \A i \in 1..Len(EmittedSeq) : RecordMatchesRow(EmittedSeq[i], NonEmptyRows[i])


(***************************************************************************)
(* C13: the Empty state is terminal: when the stored query result is still *)
(* None after retrieval, build_samos_csv yields None and then, however     *)
(* often the caller pulls, issues no further query to the store and yields *)
(* no record.                                                              *)
(***************************************************************************)
EmptyIsTerminal ==
    (gen_pc # "start" /\ influx_query_result = NoneVal) =>
        /\ \A i \in 1..Len(store_log) : store_log[i].api # "query_csv"
        /\ ~YieldingRecord


(***************************************************************************)
(* C14: in every run that emits a record the store is queried exactly      *)
(* twice before the first record, first by retrieve_samos_data (query),    *)
(* whose result is only tested for None, then by build_samos_csv           *)
(* (query_csv); every record is built from the lines of the second query   *)
(* only, whatever the first one returned; a failure of the second query is *)
(* not logged or turned into an exit by retrieve_samos_data's handlers.    *)
(***************************************************************************)
TwoQueriesPerRun ==
    /\ Len(store_log) <= 2
    /\ Len(store_log) >= 1 => store_log[1].api = "query"
    /\ Len(store_log) = 2 =>
          /\ store_log[1].outcome = "ok"
          /\ store_log[2].api = "query_csv"
          /\ influx_query_result # NoneVal
    /\ (YieldingRecord \/ tmp.lines # <<>>) =>
          /\ Len(store_log) = 2
          /\ store_log[2].outcome = "ok"
    /\ YieldingRecord => RecordMatchesRow(pulled.value, CurrentRow)
    /\ (Len(store_log) = 2 /\ store_log[2].outcome = "raised") =>
          /\ \A j \in 1..Len(log) : log[j].level # "error"
          /\ pulled = Raised(store_faults[Len(store_faults)])

\* a record is yielded although the first query returned no table at all
TwoQueriesPerRunWitness ==
    /\ YieldingRecord
    /\ influx_query_result = [tables |-> 0]
    /\ Len(store_log) = 2
    /\ Len(NonEmptyRows) >= 2

====
